---------------------------- MODULE Spec2Model ----------------------------
(***************************************************************************)
(* A model of the core of gps_heatmap: the Extent bounding box and the     *)
(* track segmenter of geo.py, the Heatmap and its Clusterers of            *)
(* heatmap.py, and the Timeseries of timeseries.py.                        *)
(*                                                                         *)
(* The components share no state in the program, so each has its own      *)
(* specification (SpecExtent, SpecExtentOps, SpecLines, SpecFromLines,     *)
(* SpecHeatmap, SpecTimeseries, SpecClusterPoints, SpecGet) in which the   *)
(* variables of the other components keep their idle values; Spec runs     *)
(* any one of them.                                                        *)
(***************************************************************************)
EXTENDS Integers, Sequences, FiniteSets, TLC

VARIABLES
    component,   \* which component this behaviour exercises
    pyver,       \* the interpreter's major version (2 or 3): "/" and round() differ
    \* ---- geo.Extent / Extent.from_lines
    ext_lines,   \* the polylines absorbed so far (from_lines' argument, consumed prefix)
    ext_margin,  \* from_lines' margin argument (0 stands for the falsy None and 0)
    extent,      \* the Extent object: [min, max], each None or a Point
    ext_pc,      \* "building" | "done" | "error"
    \* ---- geo.get_lines (a generator: one step per loop turn)
    activity,    \* the input: a sequence of LatLon <<lat, lon>>, in millidegrees
    max_gap,     \* the gap threshold, in metres
    scale,       \* the projection's metres per pixel
    gl_idx,      \* how many points of the activity the loop has consumed
    prev_latlon, \* get_lines' prev_latlon (None before the first point)
    line,        \* the coords of the PolyLine under construction
    emitted,     \* the PolyLines yielded so far, in order
    gl_pc,       \* "loop" | "done"
    \* ---- heatmap.Heatmap and its Clusterer
    clusterer,   \* the Heatmap's clusterer: [kind, cluster_scale, once, radius]
    heap,        \* the live Heatmap objects' Counters; heap[1] is the source Heatmap
    hm_lines,    \* Heatmap.from_lines' argument: the polylines to feed
    hm_updates,  \* how many update calls the source Heatmap has taken
    hm_pc,       \* "build" | "read": reads follow the build
    hm_ret,      \* what the last call returned: [op, value, id]
    \* ---- timeseries.Timeseries
    ts_dates,    \* Timeseries._dates: the date index, dates as <<year, month, day>>
    ts_values,   \* Timeseries._values: date -> list of values
    ts_added,    \* the dates of the add calls so far; the n-th call added the value n
    ts_groups,   \* the last grouped view, consumed: [mode, groups]
    \* ---- Clusterer.cluster_points (a generator) and Heatmap.get
    cp_line,     \* cluster_points' argument: the points of a line
    cp_idx,      \* how many points the generator's loop has consumed
    cp_prev,     \* ScaledClusterer.cluster_points' prev_cluster_point
    cp_out,      \* the points yielded so far, in order
    gt_point     \* the argument of the last Heatmap.get (None before)

ExtentVars == <<ext_lines, ext_margin, extent, ext_pc>>
LinesVars == <<activity, max_gap, scale, gl_idx, prev_latlon, line, emitted, gl_pc>>

HeatmapVars == <<clusterer, heap, hm_lines, hm_updates, hm_pc, hm_ret>>

TimeseriesVars == <<ts_dates, ts_values, ts_added, ts_groups>>

ClustererVars == <<cp_line, cp_idx, cp_prev, cp_out, gt_point>>

vars == <<component, pyver, ExtentVars, LinesVars, HeatmapVars, TimeseriesVars, ClustererVars>>

(***************************************************************************)
(* Python values                                                           *)
(***************************************************************************)

\* Python's None; a Coord is a pair <<x, y>>, so None differs from every Coord.
None == <<>>

X(coord) == coord[1]
Y(coord) == coord[2]

Min2(a, b) == IF a <= b THEN a ELSE b
Max2(a, b) == IF a >= b THEN a ELSE b
Abs(a) == IF a < 0 THEN -a ELSE a

\* min()/max() over a non-empty sequence of integers (generator argument).
RECURSIVE SeqMax(_)
SeqMax(s) == IF Len(s) = 1 THEN s[1] ELSE Max2(s[1], SeqMax(Tail(s)))
RECURSIVE SeqMin(_)
SeqMin(s) == IF Len(s) = 1 THEN s[1] ELSE Min2(s[1], SeqMin(Tail(s)))

\* Python's `a and b or c` where b is an integer: c unless a is truthy and b is
\* truthy (non-zero).  A namedtuple of two fields is truthy, so `a` is truthy
\* exactly when it is not None.
AndOr(a, b, c) == IF a # None /\ b # 0 THEN b ELSE c

LinesIdle ==
    /\ activity = <<>> /\ max_gap = 0 /\ scale = 1 /\ gl_idx = 0
    /\ prev_latlon = None /\ line = <<>> /\ emitted = <<>> /\ gl_pc = "idle"

\* What a call that returned nothing leaves in hm_ret.
NoReturn == [op |-> "none", value |-> 0, id |-> 0]

HeatmapIdle ==
    /\ clusterer = [kind |-> "identity", cluster_scale |-> <<1, 1>>, once |-> TRUE, radius |-> 0]
    /\ heap = <<>> /\ hm_lines = <<>> /\ hm_updates = 0 /\ hm_pc = "idle"
    /\ hm_ret = NoReturn

\* No grouped view has been taken.
NoGroups == [mode |-> "none", groups |-> <<>>]

TimeseriesIdle ==
    ts_dates = <<>> /\ ts_values = <<>> /\ ts_added = <<>> /\ ts_groups = NoGroups

ClustererIdle ==
    cp_line = <<>> /\ cp_idx = 0 /\ cp_prev = None /\ cp_out = <<>> /\ gt_point = None

(***************************************************************************)
(* geo.Extent                                                              *)
(***************************************************************************)

\* Bounds of the Extent model.
MaxCoord == 1        \* Point coordinates range over -MaxCoord..MaxCoord
MaxLineLen == 2      \* coordinates per polyline
MaxLines == 2        \* polylines fed to one Extent
MaxMargin == 2       \* margins 0..MaxMargin

Points == (-MaxCoord..MaxCoord) \X (-MaxCoord..MaxCoord)

\* The non-empty polylines of integer Points, as coordinate lists.
CoordLists == UNION {[1..n -> Points] : n \in 1..MaxLineLen}

\* Extent.__init__ with no coords.
EmptyExtent == [min |-> None, max |-> None]

\* An update that takes the first coord for the minimum and the last for the
\* maximum, as if coords came as a (min, max) pair.
ExtentUpdateEnds(ext, coords) ==
    LET lo == coords[1]
        hi == coords[Len(coords)]
    IN  [max |-> IF ext.max = None THEN hi
                 ELSE <<Max2(X(ext.max), X(hi)), Max2(Y(ext.max), Y(hi))>>,
         min |-> IF ext.min = None THEN lo
                 ELSE <<Min2(X(ext.min), X(lo)), Min2(Y(ext.min), Y(lo))>>]

\* Extent.update(coords); coord_cls is Point, whose rounding is the identity on integers.
ExtentUpdate(ext, coords) ==
    LET xs == [i \in DOMAIN coords |-> X(coords[i])]
        ys == [i \in DOMAIN coords |-> Y(coords[i])]
        max_x == SeqMax(xs)
        min_x == SeqMin(xs)
        max_y == SeqMax(ys)
        min_y == SeqMin(ys)
    IN  [max |-> << AndOr(ext.max, IF ext.max = None THEN 0 ELSE Max2(X(ext.max), max_x), max_x),
                    AndOr(ext.max, IF ext.max = None THEN 0 ELSE Max2(Y(ext.max), max_y), max_y) >>,
         min |-> << AndOr(ext.min, IF ext.min = None THEN 0 ELSE Min2(X(ext.min), min_x), min_x),
                    AndOr(ext.min, IF ext.min = None THEN 0 ELSE Min2(Y(ext.min), min_y), min_y) >>]

\* Extent.resize(size): a new Extent built from the two moved corners.
ExtentResize(ext, size) ==
    ExtentUpdate(EmptyExtent,
                 << <<X(ext.max) + size, Y(ext.max) + size>>,
                    <<X(ext.min) - size, Y(ext.min) - size>> >>)

\* Extent.is_inside(coord)
IsInside(ext, coord) ==
    /\ X(ext.min) <= X(coord) /\ X(coord) <= X(ext.max)
    /\ Y(ext.min) <= Y(coord) /\ Y(coord) <= Y(ext.max)

ExtentIdle ==
    ext_lines = <<>> /\ ext_margin = 0 /\ extent = EmptyExtent /\ ext_pc = "idle"

\* Extent.from_lines: extent = Extent()
ExtentInit ==
    /\ component = "extent"
    /\ pyver = 3
    /\ ext_lines = <<>>
    /\ ext_margin \in 0..MaxMargin
    /\ extent = EmptyExtent
    /\ ext_pc = "building"
    /\ LinesIdle
    /\ HeatmapIdle
    /\ TimeseriesIdle
    /\ ClustererIdle

\* max() and min() of an empty sequence raise ValueError.
UpdateRaises(coords) == coords = <<>>

\* Extent.from_lines, one turn of `for line in lines: extent.update(line)`.
\* The polyline may be empty, as the one get_lines yields for no points.
FromLinesUpdate ==
    /\ component = "extent"
    /\ ext_pc = "building"
    /\ Len(ext_lines) < MaxLines
    /\ \E coords \in CoordLists \cup {<<>>} :
          /\ ext_lines' = Append(ext_lines, coords)
          /\ IF UpdateRaises(coords)
             THEN extent' = extent /\ ext_pc' = "error"
             ELSE extent' = ExtentUpdate(extent, coords) /\ ext_pc' = ext_pc
    /\ UNCHANGED <<component, pyver, ext_margin, LinesVars, HeatmapVars,
                   TimeseriesVars,
                   ClustererVars>>

\* Extent.from_lines, after the loop: `if margin: extent = extent.resize(margin)`.
\* resize of an Extent that absorbed nothing reads the fields of None and raises.
FromLinesFinish ==
    /\ component = "extent"
    /\ ext_pc = "building"
    /\ IF ext_margin = 0
       THEN extent' = extent /\ ext_pc' = "done"
       ELSE IF extent.max = None
            THEN extent' = extent /\ ext_pc' = "error"
            ELSE extent' = ExtentResize(extent, ext_margin) /\ ext_pc' = "done"
    /\ UNCHANGED <<component, pyver, ext_lines, ext_margin, LinesVars, HeatmapVars,
                   TimeseriesVars,
                   ClustererVars>>

ExtentNext == FromLinesUpdate \/ FromLinesFinish

SpecExtent == ExtentInit /\ [][ExtentNext]_vars

\* extent = Extent(): an Extent object of its own, driven call by call.
ExtentOpsInit ==
    /\ component = "extent_ops"
    /\ pyver = 3
    /\ ext_lines = <<>>
    /\ ext_margin = 0
    /\ extent = EmptyExtent
    /\ ext_pc = "fresh"
    /\ LinesIdle
    /\ HeatmapIdle
    /\ TimeseriesIdle
    /\ ClustererIdle

\* extent.update(coords)
ExtentUpdateCall ==
    /\ component = "extent_ops"
    /\ ext_pc \in {"fresh", "live"}
    /\ \E coords \in CoordLists \cup {<<>>} :
          IF UpdateRaises(coords)
          THEN extent' = extent /\ ext_pc' = "error"
          ELSE extent' = ExtentUpdate(extent, coords) /\ ext_pc' = "live"
    /\ UNCHANGED <<component, pyver, ext_lines, ext_margin, LinesVars, HeatmapVars,
                   TimeseriesVars, ClustererVars>>

\* extent = extent.resize(size); on an Extent that absorbed nothing, resize
\* reads the fields of None and raises.
ExtentResizeCall ==
    /\ component = "extent_ops"
    /\ ext_pc \in {"fresh", "live"}
    /\ \E size \in 0..MaxMargin :
          IF extent.max = None
          THEN extent' = extent /\ ext_pc' = "error"
          ELSE extent' = ExtentResize(extent, size) /\ ext_pc' = "resized"
    /\ UNCHANGED <<component, pyver, ext_lines, ext_margin, LinesVars, HeatmapVars,
                   TimeseriesVars, ClustererVars>>

ExtentOpsNext == ExtentUpdateCall \/ ExtentResizeCall

SpecExtentOps == ExtentOpsInit /\ [][ExtentOpsNext]_vars

\* Every coordinate fed to the Extent so far.
ExtentInputs == {ext_lines[i][j] : <<i, j>> \in {p \in (1..MaxLines) \X (1..MaxLineLen) :
                     p[1] <= Len(ext_lines) /\ p[2] <= Len(ext_lines[p[1]])}}

\* C1: after Extent.from_lines(lines, margin) over non-empty polylines of integer
\* Points every input coordinate is inside the resulting extent, and with a
\* margin m > 0 the extent reaches exactly m beyond the covering box of the
\* inputs on every side.
C1_FromLinesCovers ==
    (ext_pc = "done" /\ ext_lines # <<>>) =>
        /\ \A c \in ExtentInputs : IsInside(extent, c)
        /\ \A c \in ExtentInputs :
              /\ X(extent.min) + ext_margin <= X(c) /\ X(c) + ext_margin <= X(extent.max)
              /\ Y(extent.min) + ext_margin <= Y(c) /\ Y(c) + ext_margin <= Y(extent.max)

\* C2: Extent growth is monotonic: an update of an already-populated Extent
\* never raises a component of min and never lowers a component of max.
C2_UpdateMonotonic ==
    [][(ext_pc = "building" /\ ext_pc' = "building" /\ extent.min # None) =>
          /\ X(extent'.min) <= X(extent.min) /\ Y(extent'.min) <= Y(extent.min)
          /\ X(extent'.max) >= X(extent.max) /\ Y(extent'.max) >= Y(extent.max)]_vars

(***************************************************************************)
(* geo.LatLon, geo.Projection, geo.PolyLine, geo.get_lines                 *)
(*                                                                         *)
(* Floating point is modelled in fixed point.  A LatLon is <<lat, lon>> in *)
(* millidegrees; distances are whole metres; math.hypot keeps about four   *)
(* significant digits, as an integer square root taken at one of two       *)
(* magnitudes; math.cos is its Taylor polynomial, good for |lat| <= 10     *)
(* degrees, which the latitudes below respect.                             *)
(***************************************************************************)

\* Bounds of the get_lines model.
MaxPts == 4          \* points per activity

\* METERS_PER_DEGREE = 2 * pi * AVG_EARTH_RADIUS / 360 = 111194.93, to the metre.
METERS_PER_DEGREE == 111195

\* geo.MAX_GAP
MAX_GAP == 700

\* The inputs: five places, 111 m, 667 m, 746 m and about 1500 km apart.
LatLons == {<<0, 0>>, <<0, 1>>, <<0, 7>>, <<3, 6>>, <<10000, 10000>>}
Activities == UNION {[1..n -> LatLons] : n \in 0..MaxPts}
MaxGaps == {0, MAX_GAP}
Scales == {1, 500}

\* Largest integer whose square does not exceed n (math.sqrt, truncated).
RECURSIVE IsqrtSearch(_, _, _)
IsqrtSearch(n, lo, hi) ==
    IF lo = hi THEN lo
    ELSE LET mid == (lo + hi + 1) \div 2
         IN  IF mid * mid <= n THEN IsqrtSearch(n, mid, hi)
                               ELSE IsqrtSearch(n, lo, mid - 1)
Isqrt(n) == IsqrtSearch(n, 0, 46340)

\* int(num / den) for den > 0, without the round: truncation toward zero.
Truncate(num, den, py) == IF num >= 0 THEN num \div den ELSE -((-num) \div den)

\* round(num / den) for den > 0: Python 2 rounds a tie away from zero, Python 3
\* to the even neighbour.
Round(num, den, py) ==
    LET q == num \div den
        r == num % den
    IN  IF 2 * r < den THEN q
        ELSE IF 2 * r > den THEN q + 1
        ELSE IF py = 2 THEN (IF num >= 0 THEN q + 1 ELSE q)
        ELSE IF q % 2 = 0 THEN q ELSE q + 1

\* math.cos(math.radians(lat)) in thousandths, lat in millidegrees:
\* 1 - r^2/2 + r^4/24 with r^2 in millionths.
CosPermille(lat) ==
    LET c == lat \div 10
        r2 == (c * c * 305) \div 10000
        ppm == 1000000 - (r2 \div 2) + ((r2 * r2) \div 24000000)
    IN  (ppm + 500) \div 1000

\* LatLon.distance(other) for other not None, in whole metres.  x and y are
\* taken in microdegrees; a short hop keeps them, a long one falls back to
\* millidegrees so that the squares fit.
Distance(self, other) ==
    LET coef == CosPermille(self[1])
        x == (self[1] - other[1]) * 1000
        y == (self[2] - other[2]) * coef
    IN  IF Abs(x) <= 32000 /\ Abs(y) <= 32000
        THEN (Isqrt(x * x + y * y) * (METERS_PER_DEGREE \div 10)) \div 100000
        ELSE LET xm == x \div 1000
                 ym == y \div 1000
             IN  (Isqrt(xm * xm + ym * ym) * METERS_PER_DEGREE) \div 1000

\* get_lines' `distance and distance > max_gap`, with distance =
\* latlon.distance(prev_latlon), which is None (falsy) when prev_latlon is None.
GapExceededDefault(latlon, prev, gap) ==
    /\ prev # None
    /\ LET distance == Distance(latlon, prev)
       IN  distance # 0 /\ distance > MAX_GAP

GapExceeded(latlon, prev, gap) ==
    /\ prev # None
    /\ LET distance == Distance(latlon, prev)
       IN  distance # 0 /\ distance > gap

\* Point(*EquirectangularProjection(scale).project(latlon)):
\* x = lon * pixels_per_degree, y = lat * pixels_per_degree, each rounded, with
\* pixels_per_degree = meters_per_degree / scale.
Project(latlon, mpp, py) ==
    << Round(latlon[2] * METERS_PER_DEGREE, 1000 * mpp, py),
       Round(latlon[1] * METERS_PER_DEGREE, 1000 * mpp, py) >>

\* A PolyLine.append that refuses any coordinate the line already holds.
PolyLineAppendUnique(coords, coord) ==
    IF \E i \in DOMAIN coords : coords[i] = coord THEN coords ELSE Append(coords, coord)

\* PolyLine.append(coord)
PolyLineAppend(coords, coord) ==
    IF (coords # <<>> /\ ~(coords[Len(coords)] = coord)) \/ coords = <<>>
    THEN Append(coords, coord)
    ELSE coords

\* get_lines: line = PolyLine(); prev_latlon = None
LinesInit ==
    /\ component = "lines"
    /\ pyver \in {2, 3}
    /\ activity \in Activities
    /\ max_gap \in MaxGaps
    /\ scale \in Scales
    /\ gl_idx = 0
    /\ prev_latlon = None
    /\ line = <<>>
    /\ emitted = <<>>
    /\ gl_pc = "loop"
    /\ ExtentIdle
    /\ HeatmapIdle
    /\ TimeseriesIdle
    /\ ClustererIdle

\* get_lines: one turn of `for latlon in activity`.
GetLinesStep ==
    /\ component = "lines"
    /\ gl_pc = "loop"
    /\ gl_idx < Len(activity)
    /\ LET latlon == activity[gl_idx + 1]
           split == GapExceeded(latlon, prev_latlon, max_gap)
           coord == Project(latlon, scale, pyver)
       IN  /\ prev_latlon' = latlon
           /\ emitted' = IF split /\ line # <<>> THEN Append(emitted, line) ELSE emitted
           /\ line' = PolyLineAppend(IF split THEN <<>> ELSE line, coord)
    /\ gl_idx' = gl_idx + 1
    /\ UNCHANGED <<component, pyver, activity, max_gap, scale, gl_pc, ExtentVars,
                   HeatmapVars, TimeseriesVars,
                   ClustererVars>>

\* get_lines: the `yield line` after the loop.
GetLinesEnd ==
    /\ component = "lines"
    /\ gl_pc = "loop"
    /\ gl_idx = Len(activity)
    /\ emitted' = Append(emitted, line)
    /\ gl_pc' = "done"
    /\ UNCHANGED <<component, pyver, activity, max_gap, scale, gl_idx, prev_latlon,
                   line, ExtentVars, HeatmapVars, TimeseriesVars,
                   ClustererVars>>

LinesNext == GetLinesStep \/ GetLinesEnd

SpecLines == LinesInit /\ [][LinesNext]_vars

\* The pairs (i-1, i) of consecutive consumed points farther apart than max_gap.
GapsSoFar == {i \in 2..gl_idx : Distance(activity[i], activity[i - 1]) > max_gap}

RECURSIVE Concat(_)
Concat(ss) == IF ss = <<>> THEN <<>> ELSE ss[1] \o Concat(Tail(ss))

\* C3: with max_gap >= 0 every pair of consecutive points farther apart than
\* max_gap is a polyline boundary (the earlier point ends an emitted polyline,
\* the later one starts the next), nothing else is (the first point included),
\* and (0,0), (0,0.001), (10,10) at 700 m give a 2-point then a 1-point polyline.
C3_GapsAreBoundaries ==
    /\ Len(emitted) = Cardinality(GapsSoFar) + (IF gl_pc = "done" THEN 1 ELSE 0)
    /\ (gl_pc = "loop" /\ gl_idx \in GapsSoFar) =>
          /\ line = <<Project(activity[gl_idx], scale, pyver)>>
          /\ emitted # <<>>
          /\ LET last == emitted[Len(emitted)]
             IN  last # <<>> /\ last[Len(last)] = Project(activity[gl_idx - 1], scale, pyver)
    /\ (gl_pc = "loop" /\ gl_idx >= 1 /\ gl_idx \notin GapsSoFar) =>
          /\ Len(line) >= 1
          /\ line[Len(line)] = Project(activity[gl_idx], scale, pyver)
          /\ gl_idx >= 2 => (Len(line) >= 2 \/ line[1] = Project(activity[gl_idx - 1], scale, pyver))
    /\ (gl_pc = "done" /\ max_gap = 700 /\ scale = 1
        /\ activity = << <<0, 0>>, <<0, 1>>, <<10000, 10000>> >>) =>
          /\ Len(emitted) = 2 /\ Len(emitted[1]) = 2 /\ Len(emitted[2]) = 1

C3_Witness ==
    /\ gl_pc = "done" /\ max_gap = 700 /\ scale = 1
    /\ activity = << <<0, 0>>, <<0, 1>>, <<10000, 10000>> >>
    /\ Len(emitted) = 2

\* The consumed points that get_lines keeps: the first, any point after a gap,
\* and any point whose pixel differs from its predecessor's.
KeptIndices == {i \in 1..gl_idx :
                   \/ i = 1
                   \/ i \in GapsSoFar
                   \/ Project(activity[i], scale, pyver) # Project(activity[i - 1], scale, pyver)}

\* The consumed points dropped as consecutive duplicates: same pixel as the
\* predecessor, and no gap in between.
Collapses == {i \in 2..gl_idx :
                 /\ i \notin GapsSoFar
                 /\ Project(activity[i], scale, pyver) = Project(activity[i - 1], scale, pyver)}

RECURSIVE KeptFrom(_)
KeptFrom(i) ==
    IF i > gl_idx THEN <<>>
    ELSE (IF i \in KeptIndices THEN <<Project(activity[i], scale, pyver)>> ELSE <<>>)
         \o KeptFrom(i + 1)

\* C4: the emitted polylines, concatenated, are the projected input points in
\* input order less the consecutive duplicates within a polyline; no polyline
\* holds two equal neighbours; no input gives one empty polyline, one point
\* gives one polyline of one point.
C4_NothingLostOrReordered ==
    /\ gl_pc = "loop" => Concat(emitted) \o line = KeptFrom(1)
    /\ gl_pc = "done" =>
          /\ Concat(emitted) = KeptFrom(1)
          /\ Len(Concat(emitted)) = Len(activity) - Cardinality(Collapses)
          /\ \A k \in DOMAIN emitted : \A j \in 1..(Len(emitted[k]) - 1) :
                emitted[k][j] # emitted[k][j + 1]
          /\ Len(activity) = 0 => emitted = << <<>> >>
          /\ Len(activity) = 1 => emitted = << <<Project(activity[1], scale, pyver)>> >>

\* A run that collapsed a consecutive duplicate and kept a later repeat.
C4_Witness ==
    /\ gl_pc = "done"
    /\ Len(Concat(emitted)) < Len(activity)
    /\ \E k \in DOMAIN emitted : \E i, j \in DOMAIN emitted[k] :
          j > i + 1 /\ emitted[k][i] = emitted[k][j]

(***************************************************************************)
(* heatmap.Clusterer and its subclasses                                    *)
(*                                                                         *)
(* A Counter is a function from the Points it holds to their counts.       *)
(* Kernel weights are fixed point, in units of 1/WeightScale.              *)
(***************************************************************************)

\* Bounds of the Heatmap model.
HmMaxLineLen == 2    \* points per polyline fed to update
HmMaxUpdates == 2    \* update calls per Heatmap
MaxNormalize == 2    \* normalize calls per Heatmap
WeightScale == 1000  \* resolution of a kernel weight

\* The pixels fed to a free-standing Heatmap, and those fed through from_lines.
HmPoints == (0..1) \X (0..1)
HmLines == UNION {[1..n -> HmPoints] : n \in 0..HmMaxLineLen}
FlPoints == {<<-2, 0>>, <<0, 0>>, <<1, 0>>}
FlLines == UNION {[1..n -> FlPoints] : n \in 0..HmMaxLineLen}

\* Clusterer()
IdentityClusterer ==
    [kind |-> "identity", cluster_scale |-> <<1, 1>>, once |-> TRUE, radius |-> 0]

\* ScaledClusterer.__init__(cluster_scale, count_cluster_point_once): a scale
\* <<num, den>> above 1 is inverted.
ScaledClusterer(cluster_scale, once) ==
    [kind |-> "scaled",
     cluster_scale |-> IF cluster_scale[1] > cluster_scale[2]
                       THEN <<cluster_scale[2], cluster_scale[1]>>
                       ELSE cluster_scale,
     once |-> once, radius |-> 0]

\* LinearKernelClusterer(radius), GaussianKernelClusterer(radius)
KernelClusterer(kind, radius) ==
    [kind |-> kind, cluster_scale |-> <<1, 1>>, once |-> TRUE, radius |-> radius]

ScaleArgs == {<<3, 1>>, <<2, 1>>, <<1, 2>>}
Radii == {1, 2}

Clusterers ==
    {IdentityClusterer}
    \cup {ScaledClusterer(a, o) : a \in ScaleArgs, o \in BOOLEAN}
    \cup {KernelClusterer(k, r) : k \in {"linear", "gaussian"}, r \in Radii}

IsKernel(c) == c.kind \in {"linear", "gaussian"}

\* cluster_point(point): ScaledClusterer rounds the scaled coordinates to a
\* Point; Clusterer and KernelClusterer return the point.
ClusterPoint(c, point, py) ==
    IF c.kind = "scaled"
    THEN << Round(point[1] * c.cluster_scale[1], c.cluster_scale[2], py),
            Round(point[2] * c.cluster_scale[1], c.cluster_scale[2], py) >>
    ELSE point

\* ScaledClusterer.cluster_points, from the given prev_cluster_point on.
RECURSIVE ScaledClusterPoints(_, _, _, _)
ScaledClusterPoints(c, ln, prev_cluster_point, py) ==
    IF ln = <<>> THEN <<>>
    ELSE LET cluster_point == ClusterPoint(c, Head(ln), py)
         IN  (IF c.once /\ cluster_point = prev_cluster_point
              THEN <<>> ELSE <<cluster_point>>)
             \o ScaledClusterPoints(c, Tail(ln), cluster_point, py)

\* cluster_points(line)
ClusterPoints(c, ln, py) ==
    IF c.kind = "scaled" THEN ScaledClusterPoints(c, ln, None, py) ELSE ln

\* LinearKernelClusterer.get_weight / GaussianKernelClusterer.get_weight at
\* the distance whose square is d2, in units of 1/WeightScale.  The Gaussian
\* weight e ** (-distance * log(256) / radius) is 2 ** -t with
\* t = 8 * distance / radius: the whole part of t halves, the fraction f goes
\* through the series of e ** -u, u = f * log(2).
GetWeight(c, d2) ==
    IF d2 >= c.radius * c.radius THEN 0
    ELSE LET distance == Isqrt(d2 * WeightScale * WeightScale)
         IN  IF c.kind = "linear"
             THEN WeightScale - (distance \div c.radius)
             ELSE LET t == (8 * distance) \div c.radius
                      u == ((t % WeightScale) * 693) \div 1000
                      W == WeightScale
                      e == W - u + ((u * u) \div (2 * W)) - ((u * u * u) \div (6 * W * W))
                             + ((((u * u * u) \div (6 * W)) * u) \div (4 * W * W))
                  IN  e \div (2 ^ (t \div WeightScale))

\* KernelClusterer.weights_matrix as first computed: {(x, y): weight} over the
\* offsets with a non-zero weight.
ComputeWeightsMatrix(c) ==
    LET offsets == {o \in (-c.radius..c.radius) \X (-c.radius..c.radius) :
                       GetWeight(c, o[1] * o[1] + o[2] * o[2]) # 0}
    IN  [o \in offsets |-> GetWeight(c, o[1] * o[1] + o[2] * o[2])]

\* self._weights_matrix of each kernel clusterer: computed once, then reused.
WeightsMatrixCache == [c \in {k \in Clusterers : IsKernel(k)} |-> ComputeWeightsMatrix(c)]

\* KernelClusterer.weights_matrix
WeightsMatrix(c) == WeightsMatrixCache[c]

(***************************************************************************)
(* heatmap.Heatmap                                                         *)
(***************************************************************************)

EmptyCounter == <<>>

\* Counter.get(key, 0) and the value of Counter[key]
CounterGet(points, key) == IF key \in DOMAIN points THEN points[key] ELSE 0

\* What reading Counter[key] for a missing key does to the Counter:
\* Counter.__missing__ returns 0 and stores nothing.
DefaultDictMissing(points, key) == (key :> 0) @@ points
CounterMissing(points, key) == points

\* self.points[point] = 1
CounterSetOne(points, key) ==
    IF key \in DOMAIN points THEN [points EXCEPT ![key] = 1] ELSE (key :> 1) @@ points

\* self.points[point] += 1
CounterIncr(points, key) ==
    IF key \in DOMAIN points THEN [points EXCEPT ![key] = @ + 1]
    ELSE (key :> 1) @@ CounterMissing(points, key)

RECURSIVE CountAll(_, _)
CountAll(points, ln) ==
    IF ln = <<>> THEN points ELSE CountAll(CounterIncr(points, Head(ln)), Tail(ln))

\* An update that forgets what the map held: self.points = Counter(line)
HeatmapUpdateForget(points, c, ln, py) == CountAll(EmptyCounter, ClusterPoints(c, ln, py))

\* Heatmap.update(line)
HeatmapUpdate(points, c, ln, py) == CountAll(points, ClusterPoints(c, ln, py))

\* Heatmap.from_lines(clusterer, lines), as a function of its arguments.
RECURSIVE FromLinesFrom(_, _, _, _)
FromLinesFrom(points, c, lines, py) ==
    IF lines = <<>> THEN points
    ELSE FromLinesFrom(HeatmapUpdate(points, c, Head(lines), py), c, Tail(lines), py)
HeatmapFromLines(c, lines, py) == FromLinesFrom(EmptyCounter, c, lines, py)

PyVersions(c) == IF c.kind = "scaled" THEN {2, 3} ELSE {3}

\* Heatmap.from_lines: heatmap = Heatmap(clusterer)
FromLinesInit ==
    /\ component = "from_lines"
    /\ clusterer \in Clusterers
    /\ pyver \in PyVersions(clusterer)
    /\ hm_lines \in UNION {[1..n -> FlLines] : n \in 0..HmMaxUpdates}
    /\ heap = <<EmptyCounter>>
    /\ hm_updates = 0
    /\ hm_pc = "build"
    /\ hm_ret = NoReturn
    /\ ExtentIdle
    /\ LinesIdle
    /\ TimeseriesIdle
    /\ ClustererIdle

\* Heatmap.from_lines: one turn of `for line in lines: heatmap.update(line)`.
HeatmapFromLinesStep ==
    /\ component = "from_lines"
    /\ hm_pc = "build"
    /\ hm_updates < Len(hm_lines)
    /\ heap' = [heap EXCEPT ![1] = HeatmapUpdate(@, clusterer, hm_lines[hm_updates + 1], pyver)]
    /\ hm_updates' = hm_updates + 1
    /\ UNCHANGED <<component, pyver, clusterer, hm_lines, hm_pc, hm_ret, ExtentVars, LinesVars,
                   TimeseriesVars,
                   ClustererVars>>

\* Heatmap.from_lines: return heatmap
HeatmapFromLinesReturn ==
    /\ component = "from_lines"
    /\ hm_pc = "build"
    /\ hm_updates = Len(hm_lines)
    /\ hm_pc' = "done"
    /\ hm_ret' = [op |-> "from_lines", value |-> 0, id |-> 1]
    /\ UNCHANGED <<component, pyver, clusterer, hm_lines, heap, hm_updates, ExtentVars, LinesVars,
                   TimeseriesVars,
                   ClustererVars>>

FromLinesNext == HeatmapFromLinesStep \/ HeatmapFromLinesReturn

SpecFromLines == FromLinesInit /\ [][FromLinesNext]_vars

RECURSIVE SumOver(_, _)
SumOver(f, S) ==
    IF S = {} THEN 0 ELSE LET k == CHOOSE k \in S : TRUE IN f[k] + SumOver(f, S \ {k})

Occurrences(key, ln) == Cardinality({i \in DOMAIN ln : ln[i] = key})

\* The cluster-mapped points of the polylines fed so far, per polyline.
FedClusterPoints == [j \in 1..hm_updates |-> ClusterPoints(clusterer, hm_lines[j], pyver)]

\* C5: update raises each key's count by the number of times the key occurs in
\* cluster_points(polyline) and changes no other key; so no count decreases,
\* every stored count is at least 1, and the counts sum to the number of
\* cluster-mapped points fed so far.
C5_UpdateCounts ==
    /\ [](/\ \A k \in DOMAIN heap[1] : heap[1][k] >= 1
          /\ SumOver(heap[1], DOMAIN heap[1])
               = SumOver([j \in 1..hm_updates |-> Len(FedClusterPoints[j])], 1..hm_updates))
    /\ [][hm_updates' = hm_updates + 1 =>
            /\ DOMAIN heap[1] \subseteq DOMAIN heap'[1]
            /\ \A k \in DOMAIN heap'[1] :
                  /\ heap'[1][k] >= CounterGet(heap[1], k)
                  /\ heap'[1][k] - CounterGet(heap[1], k)
                       = Occurrences(k, ClusterPoints(clusterer, hm_lines[hm_updates + 1], pyver))]_vars

\* Two updates done, the second of which raised a count the first had set.
C5_Witness ==
    /\ component = "from_lines" /\ hm_updates = 2
    /\ \E k \in DOMAIN heap[1] :
          /\ heap[1][k] >= 3
          /\ Occurrences(k, FedClusterPoints[1]) >= 1
          /\ Occurrences(k, FedClusterPoints[2]) >= 2

\* C6: feeding the same polylines in any order gives the same keys and counts.
C6_UpdateCommutes ==
    (component = "from_lines" /\ hm_pc = "done") =>
        \A perm \in Permutations(DOMAIN hm_lines) :
            HeatmapFromLines(clusterer, [i \in DOMAIN hm_lines |-> hm_lines[perm[i]]], pyver)
              = heap[1]

\* Two different polylines that share a cell were fed under a count-once clusterer.
C6_Witness ==
    /\ component = "from_lines" /\ hm_pc = "done" /\ Len(hm_lines) = 2
    /\ clusterer.kind = "scaled" /\ clusterer.once
    /\ hm_lines[1] # hm_lines[2]
    /\ \E k \in DOMAIN heap[1] : heap[1][k] = 2

(***************************************************************************)
(* Heatmap.get, Heatmap.normalize, KernelClusterer.cluster_heatmap         *)
(***************************************************************************)

RECURSIVE FloorLog2(_)
FloorLog2(n) == IF n < 2 THEN 0 ELSE 1 + FloorLog2(n \div 2)

\* The first `bits` binary places of log2 of the mantissa m / 2^14 in [1, 2).
RECURSIVE Log2Frac(_, _)
Log2Frac(m, bits) ==
    IF bits = 0 THEN 0
    ELSE LET sq == (m * m) \div (2 ^ 14)
         IN  IF sq >= 2 ^ 15 THEN 2 ^ (bits - 1) + Log2Frac(sq \div 2, bits - 1)
                             ELSE Log2Frac(sq, bits - 1)

\* log2(n) in 1/256ths, for an integer n >= 1.
Log2Fix(n) ==
    LET e == FloorLog2(n)
        m == IF e >= 14 THEN n \div (2 ^ (e - 14)) ELSE n * (2 ^ (14 - e))
    IN  e * 256 + Log2Frac(m, 8)

\* math.log(value + 1) in thousandths, for a value held in units of 1/unit.
LogOfValuePlusOne(value, unit) ==
    ((Log2Fix(value + unit) - Log2Fix(unit)) * 693) \div 256

\* normalize's norm_func(value, max_value): none, or normalize_log's lambda.
NormFunc(transform, value, unit) ==
    IF transform = "log" THEN LogOfValuePlusOne(value, unit) ELSE value

\* min(self.points.values()), taken where max_value belongs
LeastValue(points) ==
    CHOOSE v \in {points[k] : k \in DOMAIN points} : \A k \in DOMAIN points : v <= points[k]

\* len(self.points) where the greatest count was meant.
MapSize(points) == Cardinality(DOMAIN points)

\* Heatmap.min_value of a non-empty map
MinValue(points) ==
    CHOOSE v \in {points[k] : k \in DOMAIN points} : \A k \in DOMAIN points : v <= points[k]

\* Heatmap.max_value of a non-empty map
MaxValue(points) ==
    CHOOSE v \in {points[k] : k \in DOMAIN points} : \A k \in DOMAIN points : points[k] <= v

\* A box blur: the counts around the key summed with the weight 1 each.
KernelValueUnweighted(points, c, point) ==
    LET weights == WeightsMatrix(c)
        term == [o \in DOMAIN weights |->
                    CounterGet(points, <<point[1] + o[1], point[2] + o[2]>>) * WeightScale]
    IN  SumOver(term, DOMAIN weights)

\* KernelClusterer.cluster_heatmap: the clustered value of one key, in units of
\* 1/WeightScale: the weighted sum of the source counts around it.
KernelValue(points, c, point) ==
    LET weights == WeightsMatrix(c)
        term == [o \in DOMAIN weights |->
                    CounterGet(points, <<point[1] + o[1], point[2] + o[2]>>) * weights[o]]
    IN  SumOver(term, DOMAIN weights)

\* cluster_heatmap(heatmap).points: Clusterer returns the heatmap itself,
\* KernelClusterer a new Heatmap over the same keys.
ClusterHeatmap(c, points) ==
    IF IsKernel(c) THEN [k \in DOMAIN points |-> KernelValue(points, c, k)] ELSE points

\* The unit of cluster_heatmap's values: kernel sums carry the weights' scale.
ValueUnit(c) == IF IsKernel(c) THEN WeightScale ELSE 1

RECURSIVE MissAll(_, _)
MissAll(points, keys) ==
    IF keys = {} THEN points
    ELSE LET k == CHOOSE k \in keys : TRUE
         IN  MissAll(CounterMissing(points, k), keys \ {k})

\* The source Counter after cluster_heatmap has read heatmap.points[kernel_point]
\* around every key: the reads of missing keys go through Counter.__missing__.
SourceAfterClusterHeatmap(c, points) ==
    IF IsKernel(c)
    THEN MissAll(points,
                 {<<k[1] + o[1], k[2] + o[2]>> : k \in DOMAIN points,
                                                 o \in DOMAIN WeightsMatrix(c)}
                   \ DOMAIN points)
    ELSE points

\* Heatmap.normalize(norm_func).points for a non-empty source: each value is
\* value * 1. / max_value, kept as the exact fraction [num, den].
NormalizedPoints(c, points, transform) ==
    LET clustered == ClusterHeatmap(c, points)
        max_value == NormFunc(transform, MaxValue(clustered), ValueUnit(c))
    IN  [k \in DOMAIN clustered |->
            [num |-> NormFunc(transform, clustered[k], ValueUnit(c)), den |-> max_value]]

\* heatmap = Heatmap(clusterer)
HeatmapInit ==
    /\ component = "heatmap"
    /\ clusterer \in Clusterers
    /\ pyver \in PyVersions(clusterer)
    /\ hm_lines = <<>>
    /\ heap = <<EmptyCounter>>
    /\ hm_updates = 0
    /\ hm_pc = "build"
    /\ hm_ret = NoReturn
    /\ ExtentIdle
    /\ LinesIdle
    /\ TimeseriesIdle
    /\ ClustererIdle

\* heatmap.update(line)
HeatmapUpdateCall ==
    /\ component = "heatmap"
    /\ hm_pc = "build"
    /\ hm_updates < HmMaxUpdates
    /\ \E ln \in HmLines :
          heap' = [heap EXCEPT ![1] = HeatmapUpdate(@, clusterer, ln, pyver)]
    /\ hm_updates' = hm_updates + 1
    /\ hm_ret' = NoReturn
    /\ UNCHANGED <<component, pyver, clusterer, hm_lines, hm_pc, ExtentVars, LinesVars,
                   TimeseriesVars,
                   ClustererVars>>

\* heatmap.get(point)
HeatmapGetCall ==
    /\ component = "heatmap"
    /\ \E point \in HmPoints :
          hm_ret' = [op |-> "get",
                     value |-> CounterGet(heap[1], ClusterPoint(clusterer, point, pyver)),
                     id |-> 0]
    /\ UNCHANGED <<component, pyver, clusterer, hm_lines, heap, hm_updates, hm_pc,
                   ExtentVars, LinesVars, TimeseriesVars,
                   ClustererVars>>

\* heatmap.normalize() and heatmap.normalize_log(): the result is a new Heatmap;
\* on an empty map max() raises.
HeatmapNormalizeCall ==
    /\ component = "heatmap"
    /\ Len(heap) <= MaxNormalize
    /\ \E transform \in {"none", "log"} :
          IF DOMAIN heap[1] = {}
          THEN /\ heap' = heap
               /\ hm_ret' = [op |-> "error", value |-> 0, id |-> 0]
          ELSE /\ heap' = Append([heap EXCEPT ![1] = SourceAfterClusterHeatmap(clusterer, @)],
                                 NormalizedPoints(clusterer, heap[1], transform))
               /\ hm_ret' = [op |-> "normalize", value |-> 0, id |-> Len(heap) + 1]
    /\ hm_pc' = "read"
    /\ UNCHANGED <<component, pyver, clusterer, hm_lines, hm_updates, ExtentVars, LinesVars,
                   TimeseriesVars,
                   ClustererVars>>

\* heatmap.min_value: min() of no values raises ValueError.  min_value,
\* max_value and cluster_heatmap are called here before the first normalize;
\* normalize leaves the source as it was, so later calls return the same.
HeatmapMinValueCall ==
    /\ component = "heatmap"
    /\ hm_pc = "build"
    /\ hm_ret' = IF DOMAIN heap[1] = {}
                 THEN [op |-> "error", value |-> 0, id |-> 0]
                 ELSE [op |-> "min_value", value |-> MinValue(heap[1]), id |-> 0]
    /\ UNCHANGED <<component, pyver, clusterer, hm_lines, heap, hm_updates, hm_pc,
                   ExtentVars, LinesVars, TimeseriesVars,
                   ClustererVars>>

\* heatmap.max_value: max() of no values raises ValueError.
HeatmapMaxValueCall ==
    /\ component = "heatmap"
    /\ hm_pc = "build"
    /\ hm_ret' = IF DOMAIN heap[1] = {}
                 THEN [op |-> "error", value |-> 0, id |-> 0]
                 ELSE [op |-> "max_value", value |-> MaxValue(heap[1]), id |-> 0]
    /\ UNCHANGED <<component, pyver, clusterer, hm_lines, heap, hm_updates, hm_pc,
                   ExtentVars, LinesVars, TimeseriesVars,
                   ClustererVars>>

\* heatmap.clusterer.cluster_heatmap(heatmap): Clusterer and ScaledClusterer
\* return the heatmap itself (id 1), KernelClusterer a new Heatmap.
HeatmapClusterCall ==
    /\ component = "heatmap"
    /\ hm_pc = "build"
    /\ heap' = [heap EXCEPT ![1] = SourceAfterClusterHeatmap(clusterer, @)]
    /\ hm_ret' = [op |-> "cluster_heatmap",
                  value |-> ClusterHeatmap(clusterer, heap[1]),
                  id |-> IF IsKernel(clusterer) THEN 0 ELSE 1]
    /\ UNCHANGED <<component, pyver, clusterer, hm_lines, hm_updates, hm_pc,
                   ExtentVars, LinesVars, TimeseriesVars,
                   ClustererVars>>

HeatmapNext ==
    \/ HeatmapUpdateCall
    \/ HeatmapClusterCall
    \/ HeatmapGetCall
    \/ HeatmapNormalizeCall
    \/ HeatmapMinValueCall
    \/ HeatmapMaxValueCall

SpecHeatmap == HeatmapInit /\ [][HeatmapNext]_vars

\* C7: get and normalize / normalize_log leave the source Heatmap (and every
\* map returned earlier) with the same keys and counts, under every clusterer,
\* and normalize returns a map object that did not exist before.
C7_ReadsLeaveSource ==
    [][(component = "heatmap" /\ hm_updates' = hm_updates) =>
          /\ DOMAIN heap \subseteq DOMAIN heap'
          /\ \A i \in DOMAIN heap : heap'[i] = heap[i]
          /\ hm_ret'.op = "normalize" =>
                (Len(heap') = Len(heap) + 1 /\ hm_ret'.id = Len(heap'))]_vars

\* A kernel clusterer normalized a map with missing neighbours twice, with
\* different results.
C7_Witness ==
    /\ component = "heatmap" /\ IsKernel(clusterer) /\ clusterer.radius = 2
    /\ Len(heap) = 3 /\ heap[2] # heap[3]
    /\ Cardinality(DOMAIN heap[1]) = 2
    /\ hm_ret.op = "normalize"

\* C8: normalize() and normalize_log() of a non-empty map of positive counts
\* return a map over the same keys whose values v satisfy 0 < v <= 1 and whose
\* greatest value is 1.
C8_NormalizedRange ==
    \A i \in 2..Len(heap) :
        /\ DOMAIN heap[i] = DOMAIN heap[1]
        /\ \A k \in DOMAIN heap[i] :
              /\ heap[i][k].den > 0
              /\ 0 < heap[i][k].num /\ heap[i][k].num <= heap[i][k].den
        /\ \E k \in DOMAIN heap[i] : heap[i][k].num = heap[i][k].den

\* A log-normalized kernel map holding a value strictly between 0 and 1.
C8_Witness ==
    /\ component = "heatmap" /\ IsKernel(clusterer) /\ clusterer.radius = 2
    /\ \E i \in 2..Len(heap) : \E k \in DOMAIN heap[i] :
          /\ heap[i][k].num < heap[i][k].den
          /\ heap[i][k].den # MaxValue(ClusterHeatmap(clusterer, heap[1]))

(***************************************************************************)
(* timeseries.Timeseries                                                   *)
(*                                                                         *)
(* A date is <<year, month, day>>; datetime.date compares that way.  The   *)
(* n-th add call adds the value n, so that a value names the call that     *)
(* added it.  A group key is [tag, items]: None, or a tuple whose items    *)
(* are numbers held as reduced fractions <<numerator, denominator>>, so    *)
(* that the float a true division returns is not mistaken for an integer.  *)
(***************************************************************************)

MaxAdds == 3

SampleDates ==
    {<<2020, 12, 28>>, <<2021, 1, 3>>, <<2021, 1, 5>>, <<2021, 2, 10>>,
     <<2021, 4, 1>>, <<2022, 1, 1>>}

GroupModes == {"all", "year", "quarter", "month", "week", "day"}

DateLess(a, b) ==
    \/ a[1] < b[1]
    \/ a[1] = b[1] /\ a[2] < b[2]
    \/ a[1] = b[1] /\ a[2] = b[2] /\ a[3] < b[3]

\* datetime.date.isocalendar, as the standard library computes it.
IsLeap(year) == year % 4 = 0 /\ (year % 100 # 0 \/ year % 400 = 0)

DaysBeforeYear(year) ==
    LET y == year - 1 IN y * 365 + y \div 4 - y \div 100 + y \div 400

DaysBeforeMonth(year, month) ==
    <<0, 31, 59, 90, 120, 151, 181, 212, 243, 273, 304, 334>>[month]
        + (IF month > 2 /\ IsLeap(year) THEN 1 ELSE 0)

ToOrdinal(date) == DaysBeforeYear(date[1]) + DaysBeforeMonth(date[1], date[2]) + date[3]

IsoWeek1Monday(year) ==
    LET firstday     == ToOrdinal(<<year, 1, 1>>)
        firstweekday == (firstday + 6) % 7
        week1monday  == firstday - firstweekday
    IN  IF firstweekday > 3 THEN week1monday + 7 ELSE week1monday

IsoCalendar(date) ==
    LET year  == date[1]
        today == ToOrdinal(date)
        week  == (today - IsoWeek1Monday(year)) \div 7
        day   == (today - IsoWeek1Monday(year)) % 7
    IN  IF week < 0
        THEN <<year - 1, (today - IsoWeek1Monday(year - 1)) \div 7 + 1, day + 1>>
        ELSE IF week >= 52 /\ today >= IsoWeek1Monday(year + 1)
        THEN <<year + 1, 1, day + 1>>
        ELSE <<year, week + 1, day + 1>>

KeyNone == [tag |-> "None", items |-> <<>>]
KeyTuple(items) == [tag |-> "tuple", items |-> items]
KeyInt(n) == [tag |-> "int", items |-> <<n>>]
Whole(n) == <<n, 1>>

\* Python's `/` of two integers: floor division in Python 2, the exact
\* quotient (a float) in Python 3.
PyDiv(a, b, py) ==
    IF py = 2 \/ a % b = 0 THEN <<a \div b, 1>>
    ELSE LET g == CHOOSE g \in 1..b :
                      /\ a % g = 0 /\ b % g = 0
                      /\ \A h \in (g + 1)..b : ~(a % h = 0 /\ b % h = 0)
         IN  <<a \div g, b \div g>>

\* x + n for a number x held as a fraction and an integer n.
PlusInt(x, n) == <<x[1] + n * x[2], x[2]>>

all_group(date) == KeyNone
year_group(date) == KeyTuple(<<Whole(date[1])>>)
quarter_group(date, py) == KeyTuple(<<Whole(date[1]), PlusInt(PyDiv(date[2] - 1, 3, py), 1)>>)
month_group(date) == KeyTuple(<<Whole(date[1]), Whole(date[2])>>)
week_group(date) == KeyTuple(<<Whole(IsoCalendar(date)[1]), Whole(IsoCalendar(date)[2])>>)
day_group(date) == KeyTuple(<<Whole(date[1]), Whole(date[2]), Whole(date[3])>>)

\* Group functions a caller may hand to _grouped_values itself: one that
\* returns None for the dates before 2021 and (year,) after, one that returns
\* the integer date.year - 2020, one that returns () for 2020 and (year,) after.
CustomGroupFuncs == {"year_or_none", "years_since_2020", "year_or_empty"}

year_or_none(date) == IF date[1] < 2021 THEN KeyNone ELSE KeyTuple(<<Whole(date[1])>>)
years_since_2020(date) == KeyInt(date[1] - 2020)
year_or_empty(date) == IF date[1] < 2021 THEN KeyTuple(<<>>) ELSE KeyTuple(<<Whole(date[1])>>)

\* The group function each grouped view hands to _grouped_values.
GroupFunc(mode, date, py) ==
    CASE mode = "all"     -> all_group(date)
      [] mode = "year"    -> year_group(date)
      [] mode = "quarter" -> quarter_group(date, py)
      [] mode = "month"   -> month_group(date)
      [] mode = "week"    -> week_group(date)
      [] mode = "day"     -> day_group(date)
      [] mode = "year_or_none"     -> year_or_none(date)
      [] mode = "years_since_2020" -> years_since_2020(date)
      [] mode = "year_or_empty"    -> year_or_empty(date)

\* The truth value of a group key: None, the empty tuple and 0 are falsy.
Truthy(key) ==
    \/ key.tag = "tuple" /\ key.items # <<>>
    \/ key.tag = "int" /\ key.items # <<0>>

\* bisect.bisect_right: the insertion point after any equal entries.
RECURSIVE BisectRight(_, _, _, _)
BisectRight(a, x, lo, hi) ==
    IF lo >= hi THEN lo
    ELSE LET mid == (lo + hi) \div 2
         IN  IF DateLess(x, a[mid + 1]) THEN BisectRight(a, x, lo, mid)
                                        ELSE BisectRight(a, x, mid + 1, hi)

\* bisect.bisect_left over a[lo:hi], indices counted from 0.
RECURSIVE BisectLeft(_, _, _, _)
BisectLeft(a, x, lo, hi) ==
    IF lo >= hi THEN lo
    ELSE LET mid == (lo + hi) \div 2
         IN  IF DateLess(a[mid + 1], x) THEN BisectLeft(a, x, mid + 1, hi)
                                        ELSE BisectLeft(a, x, lo, mid)

\* list.insert(index, x), index counted from 0.
ListInsert(a, index, x) == SubSeq(a, 1, index) \o <<x>> \o SubSeq(a, index + 1, Len(a))

\* The date index after add(date, value).
AddDates(dates, date) ==
    LET index == BisectLeft(dates, date, 0, Len(dates))
    IN  IF ~(Len(dates) > index /\ dates[index + 1] = date)
        THEN ListInsert(dates, index, date)
        ELSE dates

\* self._values[date].append(value) on a defaultdict(list).
AddValues(values, date, value) ==
    [d \in DOMAIN values \cup {date} |->
        IF d = date
        THEN (IF d \in DOMAIN values THEN values[d] ELSE <<>>) \o <<value>>
        ELSE values[d]]

\* Timeseries.__len__
RECURSIVE TsLenOver(_, _)
TsLenOver(values, S) ==
    IF S = {} THEN 0
    ELSE LET d == CHOOSE d \in S : TRUE
         IN  Len(values[d]) + TsLenOver(values, S \ {d})
TsLen(values) == TsLenOver(values, DOMAIN values)

\* Timeseries.__iter__
RECURSIVE TsIter(_, _)
TsIter(dates, values) ==
    IF dates = <<>> THEN <<>> ELSE values[Head(dates)] \o TsIter(Tail(dates), values)

\* `if prev_group:` alone, the comparison of the keys left out.
GroupChangedAlways(prev_group, group) == Truthy(prev_group)

\* prev_group and not group == prev_group
GroupChanged(prev_group, group) == Truthy(prev_group) /\ ~(group = prev_group)

\* Timeseries._grouped_values, consumed to the end: the loop over self._dates
\* from the i-th date, then the trailing `if values: yield`.  Every grouped
\* view passes a function, so the leading `if not group_func` is never taken.
RECURSIVE GroupedFrom(_, _, _, _, _, _, _)
GroupedFrom(dates, store, mode, py, i, prev_group, values) ==
    IF i > Len(dates)
    THEN (IF values # <<>> THEN <<[key |-> prev_group, values |-> values]>> ELSE <<>>)
    ELSE LET group == GroupFunc(mode, dates[i], py)
         IN  IF GroupChanged(prev_group, group)
             THEN <<[key |-> prev_group, values |-> values]>>
                  \o GroupedFrom(dates, store, mode, py, i + 1, group, store[dates[i]])
             ELSE GroupedFrom(dates, store, mode, py, i + 1, group,
                              values \o store[dates[i]])

GroupedValues(dates, store, mode, py) ==
    GroupedFrom(dates, store, mode, py, 1, KeyNone, <<>>)

\* Timeseries()
TimeseriesInit ==
    /\ component = "timeseries"
    /\ pyver \in {2, 3}
    /\ ts_dates = <<>>
    /\ ts_values = <<>>
    /\ ts_added = <<>>
    /\ ts_groups = NoGroups
    /\ ExtentIdle
    /\ LinesIdle
    /\ HeatmapIdle
    /\ ClustererIdle

\* Timeseries.add(date, value)
TimeseriesAdd ==
    /\ component = "timeseries"
    /\ Len(ts_added) < MaxAdds
    /\ \E date \in SampleDates :
          /\ ts_dates' = AddDates(ts_dates, date)
          /\ ts_values' = AddValues(ts_values, date, Len(ts_added) + 1)
          /\ ts_added' = Append(ts_added, date)
    /\ ts_groups' = NoGroups
    /\ UNCHANGED <<component, pyver, ExtentVars, LinesVars, HeatmapVars, ClustererVars>>

\* list(ts.all), list(ts.yearly), ... list(ts.daily)
TimeseriesGrouped ==
    /\ component = "timeseries"
    /\ \E mode \in GroupModes :
          ts_groups' = [mode |-> mode,
                        groups |-> GroupedValues(ts_dates, ts_values, mode, pyver)]
    /\ UNCHANGED <<component, pyver, ts_dates, ts_values, ts_added, ExtentVars,
                   LinesVars, HeatmapVars, ClustererVars>>

\* list(ts._grouped_values(group_func)) with a group function of the caller's
TimeseriesGroupedBy ==
    /\ component = "timeseries"
    /\ \E group_func \in CustomGroupFuncs :
          ts_groups' = [mode |-> group_func,
                        groups |-> GroupedValues(ts_dates, ts_values, group_func, pyver)]
    /\ UNCHANGED <<component, pyver, ts_dates, ts_values, ts_added, ExtentVars,
                   LinesVars, HeatmapVars, ClustererVars>>

TimeseriesNext == TimeseriesAdd \/ TimeseriesGrouped \/ TimeseriesGroupedBy

SpecTimeseries == TimeseriesInit /\ [][TimeseriesNext]_vars

\* The date of the add call that added a value.
DateAdded(value) == ts_added[value]

\* C9: after any sequence of add calls the date index is strictly increasing
\* and holds exactly the dates that have values; iteration yields every added
\* value once, in non-decreasing date order and, within a date, in insertion
\* order; len() is the number of add calls.
C9_SortedDistinctIndex ==
    LET it == TsIter(ts_dates, ts_values)
        N  == Len(ts_added)
        added == {ts_added[n] : n \in 1..N}
    IN  /\ \A i, j \in DOMAIN ts_dates : i < j => DateLess(ts_dates[i], ts_dates[j])
        /\ {ts_dates[i] : i \in DOMAIN ts_dates} = added
        /\ DOMAIN ts_values = added
        /\ \A d \in added : ts_values[d] # <<>>
        /\ Len(it) = N
        /\ {it[i] : i \in DOMAIN it} = 1..N
        /\ \A i, j \in DOMAIN it :
              i < j => /\ ~DateLess(DateAdded(it[j]), DateAdded(it[i]))
                       /\ DateAdded(it[i]) = DateAdded(it[j]) => it[i] < it[j]
        /\ TsLen(ts_values) = N

\* Three adds, the second under an earlier date and the third under the date of
\* the first: iteration yields the second value, then the first, then the third.
C9_Witness ==
    /\ component = "timeseries"
    /\ Len(ts_added) = 3
    /\ DateLess(ts_added[2], ts_added[1])
    /\ ts_added[3] = ts_added[1]
    /\ Len(ts_dates) = 2
    /\ TsIter(ts_dates, ts_values) = <<2, 1, 3>>

\* C10: every grouped view (all, yearly, quarterly, monthly, weekly, daily) of a
\* populated series partitions it: no group is empty, the groups' values
\* concatenated are the plain iteration, every value of a group has the group's
\* key, adjacent groups differ in key, each key is emitted once and the groups
\* are in chronological order; 'all' yields one group with key None; and
\* 2021-01-05, 2021-02-10, 2022-01-01 by year give (2021,) with 2 values, then
\* (2022,) with 1 value.
C10_GroupedPartition ==
    (ts_groups.mode \in GroupModes /\ ts_added # <<>>) =>
        LET g    == ts_groups.groups
            mode == ts_groups.mode
        IN  /\ \A i \in DOMAIN g : g[i].values # <<>>
            /\ Concat([i \in DOMAIN g |-> g[i].values]) = TsIter(ts_dates, ts_values)
            /\ \A i \in DOMAIN g : \A k \in DOMAIN g[i].values :
                  GroupFunc(mode, DateAdded(g[i].values[k]), pyver) = g[i].key
            /\ \A i \in 1..(Len(g) - 1) : g[i].key # g[i + 1].key
            /\ \A i, j \in DOMAIN g : i < j =>
                  /\ g[i].key # g[j].key
                  /\ \A k \in DOMAIN g[i].values : \A l \in DOMAIN g[j].values :
                        DateLess(DateAdded(g[i].values[k]), DateAdded(g[j].values[l]))
            /\ mode = "all" => Len(g) = 1 /\ g[1].key = KeyNone
            /\ ( /\ mode = "year"
                 /\ Len(ts_added) = 3
                 /\ {ts_added[n] : n \in 1..3}
                        = {<<2021, 1, 5>>, <<2021, 2, 10>>, <<2022, 1, 1>>} )
               => /\ Len(g) = 2
                  /\ g[1].key = KeyTuple(<<Whole(2021)>>) /\ Len(g[1].values) = 2
                  /\ g[2].key = KeyTuple(<<Whole(2022)>>) /\ Len(g[2].values) = 1

\* The yearly view of 2022-01-01, 2021-01-05, 2021-02-10 added in that order.
C10_Witness ==
    /\ component = "timeseries"
    /\ ts_added = <<(<<2022, 1, 1>>), (<<2021, 1, 5>>), (<<2021, 2, 10>>)>>
    /\ ts_groups.mode = "year"
    /\ Len(ts_groups.groups) = 2
    /\ ts_groups.groups[1].values = <<2, 3>>

\* The integer quarter index of a month: ceil(month / 3).
QuarterOf(date) == (date[2] - 1) \div 3 + 1

\* C11: quarter_group maps a date to (year, q) with q the integer quarter
\* (month - 1) // 3 + 1 in 1..4, so the quarterly view puts two dates of one
\* year whose months lie in one quarter into one group (at most 4 groups a year).
C11_QuarterIsInteger ==
    ts_groups.mode = "quarter" =>
          LET g == ts_groups.groups
          IN  /\ \A i \in DOMAIN g :
                    /\ Len(g[i].key.items) = 2
                    /\ g[i].key.items[2][2] = 1
                    /\ g[i].key.items[2][1] \in 1..4
                    /\ \A k \in DOMAIN g[i].values :
                          g[i].key = KeyTuple(<<Whole(DateAdded(g[i].values[k])[1]),
                                                Whole(QuarterOf(DateAdded(g[i].values[k])))>>)
              /\ \A m, n \in DOMAIN ts_added :
                    (ts_added[m][1] = ts_added[n][1]
                        /\ QuarterOf(ts_added[m]) = QuarterOf(ts_added[n]))
                    => \E i \in DOMAIN g :
                          {m, n} \subseteq {g[i].values[k] : k \in DOMAIN g[i].values}
              /\ \A year \in {ts_added[n][1] : n \in DOMAIN ts_added} :
                    Cardinality({i \in DOMAIN g :
                                    DateAdded(g[i].values[1])[1] = year}) <= 4

\* C12: an empty polyline is a no-op downstream: Extent.update over it (as in
\* Extent.from_lines) and Heatmap.update of it complete without raising and
\* leave the extent's min/max and the heatmap's counts as they were.
C12_EmptyPolylineNoOp ==
    [][ /\ (component = "extent" /\ Len(ext_lines') = Len(ext_lines) + 1
               /\ ext_lines'[Len(ext_lines')] = <<>>)
           => (ext_pc' # "error" /\ extent' = extent)
        /\ (component = "from_lines" /\ hm_updates' = hm_updates + 1
               /\ hm_lines[hm_updates'] = <<>>)
           => heap'[1] = heap[1] ]_vars

\* C13: on a Heatmap with no entries min_value, max_value and normalize end
\* in an error and the map stays empty; on a non-empty map min_value and
\* max_value return the least and the greatest stored count.
C13_MinMaxOnlyOnNonEmpty ==
    /\ [](component = "heatmap" =>
            /\ hm_ret.op \in {"min_value", "max_value", "normalize"} => DOMAIN heap[1] # {}
            /\ hm_ret.op \in {"min_value", "max_value"} =>
                  \E k \in DOMAIN heap[1] : heap[1][k] = hm_ret.value
            /\ hm_ret.op = "min_value" => \A k \in DOMAIN heap[1] : hm_ret.value <= heap[1][k]
            /\ hm_ret.op = "max_value" => \A k \in DOMAIN heap[1] : heap[1][k] <= hm_ret.value)
    /\ [][(component = "heatmap" /\ DOMAIN heap[1] = {} /\ hm_updates' = hm_updates
              /\ hm_ret'.op \notin {"get", "cluster_heatmap"})
          => (hm_ret'.op = "error" /\ heap' = heap)]_vars

\* min_value, max_value or normalize was called on a map that two updates with
\* empty polylines left empty, and ended in the error.
C13_Witness ==
    /\ component = "heatmap"
    /\ hm_updates = 2
    /\ heap = <<EmptyCounter>>
    /\ hm_ret.op = "error"

\* The values a grouped view put into its i-th group.
GroupMembers(i) == {ts_groups.groups[i].values[k] : k \in DOMAIN ts_groups.groups[i].values}

\* C14: for any group function, one returning None or another falsy key (0,
\* the empty tuple) for some dates included, two consecutive dates of the index
\* whose keys differ are never in one emitted group, and every emitted group
\* carries the key shared by all of its dates.
C14_GroupSeenExplicitly ==
    ts_groups.mode # "none" =>
        LET g    == ts_groups.groups
            mode == ts_groups.mode
        IN  /\ \A i \in 1..(Len(ts_dates) - 1) :
                  GroupFunc(mode, ts_dates[i], pyver) # GroupFunc(mode, ts_dates[i + 1], pyver)
                  => ~ \E j \in DOMAIN g : \E v, w \in GroupMembers(j) :
                          DateAdded(v) = ts_dates[i] /\ DateAdded(w) = ts_dates[i + 1]
            /\ \A j \in DOMAIN g : \A v \in GroupMembers(j) :
                  GroupFunc(mode, DateAdded(v), pyver) = g[j].key

\* C15: an Extent that has taken only update calls with non-empty coordinate
\* lists, and a resize by a non-negative size, has min.x <= max.x and
\* min.y <= max.y as soon as it has absorbed a coordinate; the freshly
\* constructed Extent has min and max None.
C15_MinBelowMax ==
    /\ (component = "extent_ops" /\ ext_pc = "fresh") => extent = EmptyExtent
    /\ (component = "extent_ops" /\ ext_pc \in {"live", "resized"}) =>
          /\ extent.min # None /\ extent.max # None
          /\ X(extent.min) <= X(extent.max)
          /\ Y(extent.min) <= Y(extent.max)
    /\ (component = "extent" /\ \A i \in DOMAIN ext_lines : ext_lines[i] # <<>>) =>
          /\ ext_lines = <<>> => extent = EmptyExtent
          /\ ext_lines # <<>> => (extent.min # None /\ extent.max # None)
          /\ extent.min # None =>
                /\ extent.max # None
                /\ X(extent.min) <= X(extent.max)
                /\ Y(extent.min) <= Y(extent.max)

\* An Extent over the box (-1, 0)..(0, 1), resized by 2.
C15_Witness ==
    /\ component = "extent_ops"
    /\ ext_pc = "resized"
    /\ extent = [min |-> <<-3, -2>>, max |-> <<2, 3>>]

\* The kernel offsets at a distance strictly less than the radius.
OffsetsWithin(radius) ==
    {o \in (-radius..radius) \X (-radius..radius) : o[1] * o[1] + o[2] * o[2] < radius * radius}

\* C16: KernelClusterer.cluster_heatmap returns a map over exactly the keys of
\* the source whose value at k is the sum, over the offsets o nearer than the
\* radius, of weight(o) * source[k + o], read from the source counts (0 where
\* absent); a source of one point of value V gives that key with V * weight(0).
C16_KernelClusterHeatmap ==
    (component = "heatmap" /\ IsKernel(clusterer) /\ hm_ret.op = "cluster_heatmap") =>
        LET source    == heap[1]
            clustered == hm_ret.value
            offsets   == OffsetsWithin(clusterer.radius)
        IN  /\ DOMAIN clustered = DOMAIN source
            /\ \A k \in DOMAIN source :
                  clustered[k]
                      = SumOver([o \in offsets |->
                                    GetWeight(clusterer, o[1] * o[1] + o[2] * o[2])
                                        * CounterGet(source, <<k[1] + o[1], k[2] + o[2]>>)],
                                offsets)
            /\ Cardinality(DOMAIN source) = 1 =>
                  \A k \in DOMAIN source : clustered[k] = source[k] * GetWeight(clusterer, 0)

\* A kernel of radius 2 clustered a map with two neighbouring keys: each
\* clustered value holds its neighbour's share on top of its own count.
C16_Witness ==
    /\ component = "heatmap" /\ IsKernel(clusterer) /\ clusterer.radius = 2
    /\ hm_ret.op = "cluster_heatmap"
    /\ DOMAIN heap[1] = {<<0, 0>>, <<0, 1>>}
    /\ heap[1][<<0, 0>>] = 2
    /\ hm_ret.value[<<0, 0>>] > 2 * GetWeight(clusterer, 0)
    /\ hm_ret.value[<<0, 0>>] < 2 * GetWeight(clusterer, 0) + heap[1][<<0, 1>>] * WeightScale

(***************************************************************************)
(* Clusterer.cluster_points, the generator, one step per loop turn         *)
(***************************************************************************)

MaxClusterLine == 3

ClPoints == {<<0, 0>>, <<1, 0>>, <<2, 0>>, <<2, 1>>}
ClLines == UNION {[1..n -> ClPoints] : n \in 0..MaxClusterLine}

\* A cluster point is yielded once per line: only if the line has not
\* yielded it before.
YieldsUnseen(c, cluster_point, prev_cluster_point) ==
    ~c.once \/ \A i \in DOMAIN cp_out : cp_out[i] # cluster_point

\* ScaledClusterer.cluster_points: whether the loop turn yields cluster_point.
Yields(c, cluster_point, prev_cluster_point) ==
    IF c.once THEN ~(cluster_point = prev_cluster_point) ELSE TRUE

\* clusterer.cluster_points(line), not yet started
ClusterPointsInit ==
    /\ component = "cluster_points"
    /\ clusterer \in Clusterers
    /\ pyver \in PyVersions(clusterer)
    /\ cp_line \in ClLines
    /\ cp_idx = 0
    /\ cp_prev = None
    /\ cp_out = <<>>
    /\ gt_point = None
    /\ heap = <<>> /\ hm_lines = <<>> /\ hm_updates = 0 /\ hm_pc = "idle"
    /\ hm_ret = NoReturn
    /\ ExtentIdle
    /\ LinesIdle
    /\ TimeseriesIdle

\* One turn of `for point in line` in ScaledClusterer.cluster_points.
ScaledClusterPointsStep ==
    /\ component = "cluster_points"
    /\ clusterer.kind = "scaled"
    /\ cp_idx < Len(cp_line)
    /\ LET cluster_point == ClusterPoint(clusterer, cp_line[cp_idx + 1], pyver)
       IN  /\ cp_out' = IF Yields(clusterer, cluster_point, cp_prev)
                        THEN Append(cp_out, cluster_point)
                        ELSE cp_out
           /\ cp_prev' = cluster_point
    /\ cp_idx' = cp_idx + 1
    /\ UNCHANGED <<component, pyver, cp_line, gt_point, ExtentVars, LinesVars,
                   HeatmapVars, TimeseriesVars>>

\* One turn of `for point in line: yield point` in Clusterer.cluster_points,
\* which KernelClusterer inherits.
ClusterPointsStep ==
    /\ component = "cluster_points"
    /\ clusterer.kind # "scaled"
    /\ cp_idx < Len(cp_line)
    /\ cp_out' = Append(cp_out, cp_line[cp_idx + 1])
    /\ cp_idx' = cp_idx + 1
    /\ UNCHANGED <<component, pyver, cp_line, cp_prev, gt_point, ExtentVars, LinesVars,
                   HeatmapVars, TimeseriesVars>>

ClusterPointsNext == ScaledClusterPointsStep \/ ClusterPointsStep

SpecClusterPoints == ClusterPointsInit /\ [][ClusterPointsNext]_vars

\* The cluster cells of the points consumed so far.
CellsSoFar == [i \in 1..cp_idx |-> ClusterPoint(clusterer, cp_line[i], pyver)]

\* The cells, from the i-th on, that differ from the cell just before them.
RECURSIVE ChangedCellsFrom(_)
ChangedCellsFrom(i) ==
    IF i > cp_idx THEN <<>>
    ELSE (IF i = 1 \/ CellsSoFar[i] # CellsSoFar[i - 1] THEN <<CellsSoFar[i]>> ELSE <<>>)
         \o ChangedCellsFrom(i + 1)

\* C17: a count-once ScaledClusterer yields, in order, the cell of each point
\* whose cell differs from that of the point just before it (the first point
\* always, a cell that is left and entered again anew, never two equal cells
\* in a row); a count-every one yields one cell per point; the identity and
\* kernel clusterers yield the points as they are.
C17_ClusterPoints ==
    component = "cluster_points" =>
        IF clusterer.kind = "scaled"
        THEN IF clusterer.once
             THEN /\ cp_out = ChangedCellsFrom(1)
                  /\ \A i \in 1..(Len(cp_out) - 1) : cp_out[i] # cp_out[i + 1]
                  /\ cp_idx >= 1 => cp_out[1] = CellsSoFar[1]
                  /\ \A i \in 2..cp_idx :
                        (CellsSoFar[i] # CellsSoFar[i - 1])
                        => \E k \in 2..Len(cp_out) :
                              cp_out[k] = CellsSoFar[i] /\ cp_out[k - 1] = CellsSoFar[i - 1]
             ELSE /\ Len(cp_out) = cp_idx
                  /\ cp_out = CellsSoFar
        ELSE cp_out = SubSeq(cp_line, 1, cp_idx)

\* A count-once clusterer yielded a cell, left it, and yielded it again for a
\* different point of that cell.
C17_Witness ==
    /\ component = "cluster_points"
    /\ clusterer.kind = "scaled" /\ clusterer.once
    /\ cp_idx = 3 /\ Len(cp_out) = 3
    /\ cp_out[1] = cp_out[3]
    /\ cp_line[1] # cp_line[3]

(***************************************************************************)
(* Heatmap.get on a Heatmap that took one point                            *)
(***************************************************************************)

MaxGetCoord == 4

GtPoints == (-MaxGetCoord..MaxGetCoord) \X (-MaxGetCoord..MaxGetCoord)

\* heatmap = Heatmap(ScaledClusterer(cluster_scale, count_cluster_point_once))
GetInit ==
    /\ component = "get"
    /\ clusterer \in {ScaledClusterer(a, o) : a \in ScaleArgs, o \in BOOLEAN}
    /\ pyver \in PyVersions(clusterer)
    /\ hm_lines = <<>>
    /\ heap = <<EmptyCounter>>
    /\ hm_updates = 0
    /\ hm_pc = "build"
    /\ hm_ret = NoReturn
    /\ ClustererIdle
    /\ ExtentIdle
    /\ LinesIdle
    /\ TimeseriesIdle

\* heatmap.update([point]), once
GetUpdateCall ==
    /\ component = "get"
    /\ hm_updates = 0
    /\ \E point \in GtPoints :
          /\ heap' = [heap EXCEPT ![1] = HeatmapUpdate(@, clusterer, <<point>>, pyver)]
          /\ hm_lines' = Append(hm_lines, <<point>>)
    /\ hm_updates' = hm_updates + 1
    /\ hm_ret' = NoReturn
    /\ UNCHANGED <<component, pyver, clusterer, hm_pc, ExtentVars, LinesVars,
                   TimeseriesVars, ClustererVars>>

\* heatmap.get(point)
GetCall ==
    /\ component = "get"
    /\ \E point \in GtPoints :
          /\ gt_point' = point
          /\ hm_ret' = [op |-> "get",
                        value |-> CounterGet(heap[1], ClusterPoint(clusterer, point, pyver)),
                        id |-> 0]
    /\ UNCHANGED <<component, pyver, clusterer, hm_lines, heap, hm_updates, hm_pc,
                   cp_line, cp_idx, cp_prev, cp_out, ExtentVars, LinesVars,
                   TimeseriesVars>>

GetNext == GetUpdateCall \/ GetCall

SpecGet == GetInit /\ [][GetNext]_vars

\* The 3x3 block of input cells around the output cell's centre (3cx, 3cy).
InBlock(point, cell) ==
    /\ 3 * cell[1] - 1 <= point[1] /\ point[1] <= 3 * cell[1] + 1
    /\ 3 * cell[2] - 1 <= point[2] /\ point[2] <= 3 * cell[2] + 1

\* The output cells that the points of GtPoints can fall into.
Cells == (-MaxGetCoord..MaxGetCoord) \X (-MaxGetCoord..MaxGetCoord)

\* C18: under a ScaledClusterer of cluster_scale 3 (held as 1/3) a point is
\* counted under the cell (cx, cy) exactly when 3cx-1 <= x <= 3cx+1 and
\* 3cy-1 <= y <= 3cy+1, for negative coordinates too, and Heatmap.get(p)
\* returns the count stored under the cell of p: the number of points fed from
\* the 3x3 block of p.
C18_ScaleThreeBlocks ==
    (component = "get" /\ clusterer.kind = "scaled" /\ clusterer.cluster_scale = <<1, 3>>) =>
        /\ \A j \in 1..hm_updates : \A cell \in Cells :
              (cell \in DOMAIN heap[1]) <=> InBlock(hm_lines[j][1], cell)
        /\ DOMAIN heap[1] \subseteq Cells
        /\ \A j \in 1..hm_updates :
              InBlock(hm_lines[j][1], ClusterPoint(clusterer, hm_lines[j][1], pyver))
        /\ hm_ret.op = "get" =>
              hm_ret.value
                  = Cardinality({j \in 1..hm_updates :
                        \E cell \in Cells :
                            InBlock(hm_lines[j][1], cell) /\ InBlock(gt_point, cell)})

\* The point (-2, 4) was fed, and get at another point of its block, (-4, 2),
\* returned the 1 stored under the cell (-1, 1).
C18_Witness ==
    /\ component = "get"
    /\ clusterer.kind = "scaled" /\ clusterer.cluster_scale = <<1, 3>>
    /\ hm_lines = << <<(<<-2, 4>>)>> >>
    /\ DOMAIN heap[1] = {<<-1, 1>>}
    /\ gt_point = <<-4, 2>>
    /\ hm_ret.op = "get" /\ hm_ret.value = 1

(***************************************************************************)
(* The whole program                                                       *)
(***************************************************************************)

Init ==
    \/ ExtentInit
    \/ ExtentOpsInit
    \/ LinesInit
    \/ FromLinesInit
    \/ HeatmapInit
    \/ TimeseriesInit
    \/ ClusterPointsInit
    \/ GetInit

Next ==
    \/ ExtentNext
    \/ ExtentOpsNext
    \/ LinesNext
    \/ FromLinesNext
    \/ HeatmapNext
    \/ TimeseriesNext
    \/ ClusterPointsNext
    \/ GetNext

Spec == Init /\ [][Next]_vars

=============================================================================
